---- MODULE Spec2Model ----
(***************************************************************************)
(* Model of ptipython_enhancer/utilities/__init__.py: the PyPIManager and  *)
(* PackageManager facades and pip_install.                                 *)
(*                                                                         *)
(* Text (package names, version identifiers) is a sequence of one-character*)
(* strings, so that str.lower(), the `in` substring test and parse_version *)
(* are computed character by character.  Python values are tagged records  *)
(* [ty, val]; a call's outcome is the record held in the variable `call`.  *)
(***************************************************************************)
EXTENDS Integers, Sequences, FiniteSets, TLC

VARIABLES
    INSTALL_COMMAND,  \* the module-level command template (a Python list)
    call,             \* the last completed public call and everything it did
    pc,               \* "idle", "loop" while pip_install iterates, "returned"
    packages,         \* pip_install: the list being installed
    idx,              \* pip_install: number of loop iterations completed
    task,             \* pip_install: the progress task [total, completed]
    log               \* pip_install: the install_package calls made, in order

vars == <<INSTALL_COMMAND, call, pc, packages, idx, task, log>>

-----------------------------------------------------------------------------
\* Bounds of the model.

\* longest `releases` mapping an index response carries
MaxReleases == 3
\* longest list of package names handed to install_package / pip_install
MaxPackages == 2

-----------------------------------------------------------------------------
\* Python values.

PyNone == [ty |-> "NoneType", val |-> <<>>]
PyStr(s) == [ty |-> "str", val |-> s]
PyList(xs) == [ty |-> "list", val |-> xs]
PyBool(b) == [ty |-> "bool", val |-> b]
PyDict(d) == [ty |-> "dict", val |-> d]

\* isinstance(x, list) / isinstance(x, str)
IsList(x) == x.ty = "list"
IsStr(x) == x.ty = "str"

\* The injective sequences over S of length at most n (the key order of a dict,
\* whose keys are distinct).
DistinctSeqs(S, n) ==
    UNION { { s \in [1..k -> S] : \A i, j \in 1..k : i # j => s[i] # s[j] } : k \in 0..n }

\* All sequences over S of length at most n.
SeqsUpTo(S, n) == UNION { [1..k -> S] : k \in 0..n }

ElemsOf(s) == { s[i] : i \in 1..Len(s) }

-----------------------------------------------------------------------------
\* Text.

UpperChars == <<"A","B","C","D","E","F","G","H","I","J","K","L","M",
                "N","O","P","Q","R","S","T","U","V","W","X","Y","Z">>
LowerChars == <<"a","b","c","d","e","f","g","h","i","j","k","l","m",
                "n","o","p","q","r","s","t","u","v","w","x","y","z">>
DigitChars == <<"0","1","2","3","4","5","6","7","8","9">>

LowerChar(c) ==
    IF \E i \in 1..Len(UpperChars) : UpperChars[i] = c
    THEN LowerChars[CHOOSE i \in 1..Len(UpperChars) : UpperChars[i] = c]
    ELSE c

\* str.lower()
ToLower(s) == [i \in 1..Len(s) |-> LowerChar(s[i])]

\* `sub in s` for strings
Contains(s, sub) ==
    \E i \in 0..(Len(s) - Len(sub)) : SubSeq(s, i + 1, i + Len(sub)) = sub

StartsWith(s, p) == Len(p) <= Len(s) /\ SubSeq(s, 1, Len(p)) = p

DropFirst(s, n) == SubSeq(s, n + 1, Len(s))

IsDigit(c) == \E i \in 1..Len(DigitChars) : DigitChars[i] = c
DigitVal(c) == (CHOOSE i \in 1..Len(DigitChars) : DigitChars[i] = c) - 1

\* The package names the calls are made with.
n_foo == <<"f","o","o">>
n_Foo == <<"F","o","o">>
n_FOO == <<"F","O","O">>
n_bar == <<"b","a","r">>
n_Bar == <<"B","a","r">>
Names == {n_foo, n_Foo, n_FOO, n_bar, n_Bar}

s_pip == <<"p","i","p">>
s_install == <<"i","n","s","t","a","l","l">>

-----------------------------------------------------------------------------
\* pkg_resources.parse_version: the PEP 440 sort key of an identifier of the
\* form  N(.N)* [ (a|b|rc)N ] [ .postN ] [ .devN ].

\* length of the leading release segment N(.N)*
RECURSIVE ScanRelease(_, _)
ScanRelease(s, i) ==
    IF i > Len(s) THEN i - 1
    ELSE IF IsDigit(s[i]) THEN ScanRelease(s, i + 1)
    ELSE IF s[i] = "." /\ i < Len(s) /\ IsDigit(s[i + 1]) THEN ScanRelease(s, i + 1)
    ELSE i - 1

\* the numbers of a dotted segment
RECURSIVE ParseNums(_, _, _, _)
ParseNums(s, i, cur, acc) ==
    IF i > Len(s) THEN Append(acc, cur)
    ELSE IF s[i] = "." THEN ParseNums(s, i + 1, 0, Append(acc, cur))
    ELSE ParseNums(s, i + 1, cur * 10 + DigitVal(s[i]), acc)

\* length of the leading run of digits
RECURSIVE ScanDigits(_, _)
ScanDigits(s, i) ==
    IF i <= Len(s) /\ IsDigit(s[i]) THEN ScanDigits(s, i + 1) ELSE i - 1

\* the release with its trailing zeros dropped
RECURSIVE StripZeros(_)
StripZeros(r) ==
    IF Len(r) > 0 /\ r[Len(r)] = 0 THEN StripZeros(SubSeq(r, 1, Len(r) - 1)) ELSE r

\* a tagged number: tag (the marker, or <<>> when absent), its number, the rest
SplitNumber(t, r, n) ==
    [tag |-> t, num |-> ParseNums(SubSeq(r, 1, n), 1, 0, <<>>)[1], rest |-> DropFirst(r, n)]

TakeNumber(t, r) == SplitNumber(t, r, ScanDigits(r, 1))

TakeTagged(s, tags) ==
    IF \E t \in tags : StartsWith(s, t)
    THEN TakeNumber(CHOOSE t \in tags : StartsWith(s, t),
                    DropFirst(s, Len(CHOOSE t \in tags : StartsWith(s, t))))
    ELSE [tag |-> <<>>, num |-> 0, rest |-> s]

PreTags == { <<"a">>, <<"b">>, <<"r","c">> }
PostTags == { <<".","p","o","s","t">> }
DevTags == { <<".","d","e","v">> }
NoTag == [tag |-> <<>>, num |-> 0, rest |-> <<>>]

PreRank(t) == IF t = <<"a">> THEN 1 ELSE IF t = <<"b">> THEN 2 ELSE 3

\* The parts of an identifier, read left to right.
SplitRelease(s, n) ==
    [release |-> ParseNums(SubSeq(s, 1, n), 1, 0, <<>>), rest |-> DropFirst(s, n),
     pre |-> NoTag, post |-> NoTag, dev |-> NoTag]
SetPre(p, t) == [p EXCEPT !.pre = t, !.rest = t.rest]
SetPost(p, t) == [p EXCEPT !.post = t, !.rest = t.rest]
SetDev(p, t) == [p EXCEPT !.dev = t, !.rest = t.rest]
TakePre(p) == SetPre(p, TakeTagged(p.rest, PreTags))
TakePost(p) == SetPost(p, TakeTagged(p.rest, PostTags))
TakeDev(p) == SetDev(p, TakeTagged(p.rest, DevTags))

VersionParts(s) == TakeDev(TakePost(TakePre(SplitRelease(s, ScanRelease(s, 1)))))

\* The sort key: (release, pre, post, dev), an absent pre-release sorting
\* above every pre-release unless the identifier is a bare .dev release, an
\* absent post below every post, an absent dev above every dev.
SortKey(p) ==
    [release |-> StripZeros(p.release),
     rest |-> << IF p.pre.tag # <<>> THEN PreRank(p.pre.tag)
                 ELSE IF p.post.tag = <<>> /\ p.dev.tag # <<>> THEN 0 ELSE 4,
                 p.pre.num,
                 IF p.post.tag # <<>> THEN 1 ELSE 0,
                 p.post.num,
                 IF p.dev.tag # <<>> THEN 0 ELSE 1,
                 p.dev.num >>]

parse_version(s) == SortKey(VersionParts(s))

\* Python's tuple order on integer tuples
RECURSIVE TupleLess(_, _)
TupleLess(a, b) ==
    IF a = <<>> THEN b # <<>>
    ELSE IF b = <<>> THEN FALSE
    ELSE IF a[1] # b[1] THEN a[1] < b[1]
    ELSE TupleLess(Tail(a), Tail(b))

\* the order of two sort keys
KeyLess(kv, kw) ==
    IF kv.release # kw.release THEN TupleLess(kv.release, kw.release)
    ELSE TupleLess(kv.rest, kw.rest)

\* parse_version(v) < parse_version(w)
VersionLess(v, w) == KeyLess(parse_version(v), parse_version(w))

\* sorted(xs, key=parse_version): stable, ascending
RECURSIVE InsertByVersion(_, _)
InsertByVersion(x, s) ==
    IF s = <<>> THEN <<x>>
    ELSE IF VersionLess(x, s[Len(s)])
         THEN Append(InsertByVersion(x, SubSeq(s, 1, Len(s) - 1)), s[Len(s)])
         ELSE Append(s, x)

RECURSIVE sorted_by_version(_)
sorted_by_version(xs) ==
    IF xs = <<>> THEN <<>>
    ELSE InsertByVersion(xs[Len(xs)], sorted_by_version(SubSeq(xs, 1, Len(xs) - 1)))

\* The version identifiers an index response may carry.
v_1_0 == <<"1",".","0">>
v_1_0_0 == <<"1",".","0",".","0">>
v_1_0_post1 == <<"1",".","0",".","p","o","s","t","1">>
v_1_1a1 == <<"1",".","1","a","1">>
v_1_1b2 == <<"1",".","1","b","2">>
v_1_1rc1 == <<"1",".","1","r","c","1">>
v_1_1 == <<"1",".","1">>
v_1_9 == <<"1",".","9">>
v_1_10 == <<"1",".","1","0">>
v_2_0_dev1 == <<"2",".","0",".","d","e","v","1">>
Versions == {v_1_0, v_1_0_0, v_1_0_post1, v_1_1a1, v_1_1b2, v_1_1rc1, v_1_1,
             v_1_9, v_1_10, v_2_0_dev1}

-----------------------------------------------------------------------------
\* The environment a call meets.

\* requests.get(url): the request itself raises, or a response comes back
\* with a status code and a body.
HTTP_OK == 200
StatusCodes == {HTTP_OK, 404, 503}
Bodies ==
    { [kind |-> "releases", keys |-> ks] : ks \in DistinctSeqs(Versions, MaxReleases) }
        \cup { [kind |-> "not_json", keys |-> <<>>], [kind |-> "no_releases", keys |-> <<>>] }
HttpOutcomes ==
    { [raises |-> TRUE, status_code |-> 0, body |-> [kind |-> "not_json", keys |-> <<>>]] }
        \cup { [raises |-> FALSE, status_code |-> c, body |-> b] : c \in StatusCodes, b \in Bodies }

\* The pip subprocess: it cannot be started, or it exits with a return code.
ProcOutcomes ==
    { [kind |-> "oserror", returncode |-> 0, stdout |-> "", stderr |-> ""],
      [kind |-> "exit", returncode |-> 0, stdout |-> "Successfully installed", stderr |-> ""],
      [kind |-> "exit", returncode |-> 1, stdout |-> "",
       stderr |-> "ERROR: No matching distribution found"] }

ProcFailed(p) == p.kind = "oserror" \/ p.returncode # 0

\* pkg_resources.working_set: the installed distributions, keyed by their
\* lower-cased project name.
Dists ==
    { [key |-> n_foo, version |-> v_1_0, location |-> "/site-packages"],
      [key |-> n_bar, version |-> v_1_1, location |-> "/usr/lib/python3"] }
WorkingSets == SUBSET Dists

\* __import__(package_name): it loads, or raises ImportError, or the module's
\* own code raises something else while loading.
ImportOutcomes == {"ok", "ImportError", "SyntaxError", "RuntimeError"}

\* What a call did: its return value, the exception that left it ("none" when
\* it returned), the console lines, the subprocess.run invocations, and
\* whether response.json() was evaluated.
Returned(v) ==
    [ret |-> v, raised |-> "none", out |-> <<>>, runs |-> <<>>, body_read |-> FALSE]
Raised(e) ==
    [ret |-> PyNone, raised |-> e, out |-> <<>>, runs |-> <<>>, body_read |-> FALSE]

-----------------------------------------------------------------------------
\* PyPIManager

\* response.json() ... data["releases"].keys()
ReadReleases(http) ==
    IF http.body.kind = "not_json" THEN [Raised("JSONDecodeError") EXCEPT !.body_read = TRUE]
    ELSE IF http.body.kind = "no_releases" THEN [Raised("KeyError") EXCEPT !.body_read = TRUE]
    ELSE [Returned(PyList(http.body.keys)) EXCEPT !.body_read = TRUE]

PyStrs(xs) == [i \in 1..Len(xs) |-> PyStr(xs[i])]

\* variant: list(data["releases"].keys()), the sort left out
UnsortedReleases(data) ==
    IF data.raised # "none" THEN data
    ELSE [data EXCEPT !.ret = PyList(PyStrs(data.ret.val))]

\* sorted(data["releases"].keys(), key=parse_version)
SortedReleases(data) ==
    IF data.raised # "none" THEN data
    ELSE [data EXCEPT !.ret = PyList(PyStrs(sorted_by_version(data.ret.val)))]

\* variant: response.json() evaluated before the status is looked at
get_pypi_package_versions_eager(package_name, http) ==
    IF http.raises THEN Raised("ConnectionError")
    ELSE IF http.status_code = HTTP_OK
         THEN SortedReleases(ReadReleases(http))
         ELSE IF ReadReleases(http).raised # "none" THEN ReadReleases(http)
         ELSE [Returned(PyList(<<>>)) EXCEPT
                  !.out = <<"Failed to fetch versions from PyPI.">>, !.body_read = TRUE]

get_pypi_package_versions(package_name, http) ==
    IF http.raises THEN Raised("ConnectionError")
    ELSE IF http.status_code = HTTP_OK
         THEN SortedReleases(ReadReleases(http))
         ELSE [Returned(PyList(<<>>)) EXCEPT !.out = <<"Failed to fetch versions from PyPI.">>]

\* "a" not in v and "b" not in v and "rc" not in v
IsStable(v) ==
    ~Contains(v, <<"a">>) /\ ~Contains(v, <<"b">>) /\ ~Contains(v, <<"r","c">>)

IsStableStr(v) == IsStable(v.val)

\* variant: stable_versions[0]
FirstOrNone(r, stable_versions) ==
    IF stable_versions # <<>>
    THEN [r EXCEPT !.ret = stable_versions[1]]
    ELSE [r EXCEPT !.ret = PyNone, !.out = Append(r.out, "No stable versions found.")]

\* stable_versions[-1], or None
LastOrNone(r, stable_versions) ==
    IF stable_versions # <<>>
    THEN [r EXCEPT !.ret = stable_versions[Len(stable_versions)]]
    ELSE [r EXCEPT !.ret = PyNone, !.out = Append(r.out, "No stable versions found.")]

LatestOf(r) ==
    IF r.raised # "none" THEN r ELSE LastOrNone(r, SelectSeq(r.ret.val, IsStableStr))

get_latest_stable_version(package_name, http) ==
    LatestOf(get_pypi_package_versions(package_name, http))

-----------------------------------------------------------------------------
\* PackageManager

\* The template as the module defines it.
InitialInstallCommand == PyList(<<PyStr(s_pip), PyStr(s_install)>>)

\* variant: the names appended to INSTALL_COMMAND itself, no copy taken
get_install_command_extend(template, package_name) ==
    [ret |-> IF IsList(package_name)
             THEN PyList(template.val \o package_name.val)
             ELSE PyList(template.val \o <<package_name>>),
     template |-> IF IsList(package_name)
                  THEN PyList(template.val \o package_name.val)
                  ELSE PyList(template.val \o <<package_name>>),
     arg_after |-> package_name]

\* The new list returned, and the template and the argument as the call
\* leaves them.
get_install_command(template, package_name) ==
    [ret |-> IF IsList(package_name)
             THEN PyList(template.val \o package_name.val)
             ELSE PyList(template.val \o <<package_name>>),
     template |-> template,
     arg_after |-> package_name]

\* subprocess.run(argv, check=False): argv must be strings; the process may
\* fail to start; a non-zero return code raises nothing.
subprocess_run(argv, proc) ==
    IF \E i \in 1..Len(argv) : ~IsStr(argv[i]) THEN Raised("TypeError")
    ELSE IF proc.kind = "oserror" THEN Raised("OSError")
    ELSE Returned(proc)

\* the argument list install_package hands to subprocess.run
RunArgs(cmd, package_name, show_output) ==
    IF show_output THEN cmd.val ELSE <<PyStr(s_pip), PyStr(s_install), package_name>>

\* print(res.stdout), and res.stderr when there is any
Shown(res, show_output) ==
    IF show_output
    THEN <<res.ret.stdout>> \o (IF res.ret.stderr # "" THEN <<res.ret.stderr>> ELSE <<>>)
    ELSE <<>>

\* variant: only CalledProcessError is caught
InstallOutcomeUnguarded(res, argv, show_output) ==
    IF res.raised # "none"
    THEN [Raised(res.raised) EXCEPT !.runs = <<argv>>]
    ELSE [Returned(PyNone) EXCEPT
             !.out = Shown(res, show_output) \o <<"has been installed successfully.">>,
             !.runs = <<argv>>]

\* install_package once subprocess.run is over: with check=False no
\* CalledProcessError is raised, whatever the return code; anything
\* subprocess.run raised is caught by `except Exception`; None is returned.
InstallOutcome(res, argv, show_output) ==
    IF res.raised # "none"
    THEN [Returned(PyNone) EXCEPT
             !.out = <<"An unexpected error occurred while trying to install">>,
             !.runs = <<argv>>]
    ELSE [Returned(PyNone) EXCEPT
             !.out = Shown(res, show_output) \o <<"has been installed successfully.">>,
             !.runs = <<argv>>]

RunInstall(c, argv, show_output, proc) ==
    InstallOutcome(subprocess_run(argv, proc), argv, show_output) @@ [template |-> c.template]

InstallWith(c, package_name, show_output, proc) ==
    RunInstall(c, RunArgs(c.ret, package_name, show_output), show_output, proc)

install_package(template, package_name, show_output, proc) ==
    InstallWith(get_install_command(template, package_name), package_name, show_output, proc)

\* variant: the name compared as given, not lower-cased
is_package_installed_exact(package_name, working_set) ==
    Returned(PyBool(package_name.val \in { d.key : d \in working_set }))

is_package_installed(package_name, working_set) ==
    LET installed_packages == { d.key : d \in working_set }
    IN Returned(PyBool(ToLower(package_name.val) \in installed_packages))

get_package_info(package_name, working_set, imp) ==
    LET found == { d \in working_set : d.key = ToLower(package_name.val) }
    IN IF found = {}
       THEN [Returned(PyDict(<<>>)) EXCEPT !.out = <<"is not installed.">>]
       ELSE LET package == CHOOSE d \in found : TRUE
            IN IF imp \in {"ok", "ImportError"}
               THEN Returned(PyDict([version |-> package.version,
                                     location |-> package.location,
                                     can_import |-> (imp = "ok")]))
               ELSE Raised(imp)

-----------------------------------------------------------------------------
\* The calls.

Targets == { PyStr(n) : n \in Names }
              \cup { PyList(ns) : ns \in SeqsUpTo({ PyStr(n) : n \in Names }, MaxPackages) }

Done(op, arg, env, r) ==
    [op |-> op, arg |-> arg, arg_after |-> arg, env |-> env, ret |-> r.ret,
     raised |-> r.raised, out |-> r.out, runs |-> r.runs, body_read |-> r.body_read]

NoEnv == [kind |-> "none"]

NoCall == Done("none", PyNone, NoEnv, Returned(PyNone))

Init ==
    /\ INSTALL_COMMAND = InitialInstallCommand
    /\ call = NoCall
    /\ pc = "idle"
    /\ packages = <<>>
    /\ idx = 0
    /\ task = [total |-> 0, completed |-> 0]
    /\ log = <<>>

GetPypiPackageVersions ==
    /\ pc = "idle"
    /\ \E n \in {n_foo, n_Bar}, http \in HttpOutcomes :
          call' = Done("get_pypi_package_versions", PyStr(n), http,
                       get_pypi_package_versions(PyStr(n), http))
    /\ pc' = "returned"
    /\ UNCHANGED <<INSTALL_COMMAND, packages, idx, task, log>>

GetLatestStableVersion ==
    /\ pc = "idle"
    /\ \E n \in {n_foo, n_Bar}, http \in HttpOutcomes :
          call' = Done("get_latest_stable_version", PyStr(n), http,
                       get_latest_stable_version(PyStr(n), http))
    /\ pc' = "returned"
    /\ UNCHANGED <<INSTALL_COMMAND, packages, idx, task, log>>

GetInstallCommand ==
    /\ pc = "idle"
    /\ \E t \in Targets :
          LET r == get_install_command(INSTALL_COMMAND, t)
          IN /\ call' = [Done("get_install_command", t, NoEnv, Returned(r.ret))
                            EXCEPT !.arg_after = r.arg_after]
             /\ INSTALL_COMMAND' = r.template
    /\ pc' = "returned"
    /\ UNCHANGED <<packages, idx, task, log>>

InstallPackage ==
    /\ pc = "idle"
    /\ \E t \in Targets, show_output \in BOOLEAN, proc \in ProcOutcomes :
          LET r == install_package(INSTALL_COMMAND, t, show_output, proc)
          IN /\ call' = Done("install_package", t,
                             [kind |-> "proc", proc |-> proc, show_output |-> show_output], r)
             /\ INSTALL_COMMAND' = r.template
    /\ pc' = "returned"
    /\ UNCHANGED <<packages, idx, task, log>>

IsPackageInstalled ==
    /\ pc = "idle"
    /\ \E n \in Names, ws \in WorkingSets :
          call' = Done("is_package_installed", PyStr(n),
                       [kind |-> "registry", working_set |-> ws],
                       is_package_installed(PyStr(n), ws))
    /\ pc' = "returned"
    /\ UNCHANGED <<INSTALL_COMMAND, packages, idx, task, log>>

GetPackageInfo ==
    /\ pc = "idle"
    /\ \E n \in Names, ws \in WorkingSets, imp \in ImportOutcomes :
          call' = Done("get_package_info", PyStr(n),
                       [kind |-> "registry", working_set |-> ws, imp |-> imp],
                       get_package_info(PyStr(n), ws, imp))
    /\ pc' = "returned"
    /\ UNCHANGED <<INSTALL_COMMAND, packages, idx, task, log>>

\* pip_install: entry, up to progress.add_task
PipInstallBegin ==
    /\ pc = "idle"
    /\ \E t \in Targets :
          LET ps == IF IsStr(t) THEN <<t>> ELSE t.val
          IN /\ packages' = ps
             /\ task' = [total |-> Len(ps), completed |-> 0]
             /\ call' = Done("pip_install:running", t, NoEnv, Returned(PyNone))
    /\ idx' = 0
    /\ log' = <<>>
    /\ pc' = "loop"
    /\ UNCHANGED INSTALL_COMMAND

\* pip_install: one iteration, install_package(package) then
\* progress.advance(task); an exception leaving install_package leaves
\* pip_install too.
PipInstallIter ==
    /\ pc = "loop"
    /\ idx < Len(packages)
    /\ \E proc \in ProcOutcomes :
          LET r == install_package(INSTALL_COMMAND, packages[idx + 1], TRUE, proc)
          IN /\ log' = Append(log, [package |-> packages[idx + 1], proc |-> proc,
                                    runs |-> r.runs, raised |-> r.raised])
             /\ INSTALL_COMMAND' = r.template
             /\ IF r.raised = "none"
                THEN /\ task' = [task EXCEPT !.completed = @ + 1]
                     /\ idx' = idx + 1
                     /\ UNCHANGED <<pc, call>>
                ELSE /\ pc' = "returned"
                     /\ call' = [call EXCEPT !.op = "pip_install", !.raised = r.raised]
                     /\ UNCHANGED <<task, idx>>
    /\ UNCHANGED packages

\* pip_install: the loop is exhausted and the call returns
PipInstallEnd ==
    /\ pc = "loop"
    /\ idx = Len(packages)
    /\ pc' = "returned"
    /\ call' = [call EXCEPT !.op = "pip_install"]
    /\ UNCHANGED <<INSTALL_COMMAND, packages, idx, task, log>>

\* The caller has the result of the call and is free to make the next one;
\* nothing of a finished call is kept but the module-level template.
Return ==
    /\ pc = "returned"
    /\ pc' = "idle"
    /\ call' = NoCall
    /\ packages' = <<>>
    /\ idx' = 0
    /\ task' = [total |-> 0, completed |-> 0]
    /\ log' = <<>>
    /\ UNCHANGED INSTALL_COMMAND

Next ==
    \/ GetPypiPackageVersions
    \/ GetLatestStableVersion
    \/ GetInstallCommand
    \/ InstallPackage
    \/ IsPackageInstalled
    \/ GetPackageInfo
    \/ PipInstallBegin
    \/ PipInstallIter
    \/ PipInstallEnd
    \/ Return

Spec == Init /\ [][Next]_vars

\* pip_install is a synchronous loop: once entered, each iteration and the
\* return are taken.
FairSpec == Spec /\ WF_vars(PipInstallIter) /\ WF_vars(PipInstallEnd)

-----------------------------------------------------------------------------
\* Vocabulary of the properties.

Finished(op) == pc = "returned" /\ call.op = op

\* the index answered 200 with a body carrying a releases mapping
IndexAnswered(http) ==
    ~http.raises /\ http.status_code = HTTP_OK /\ http.body.kind = "releases"

\* the identifier contains one of the substrings "a", "b", "rc"
HasMarker(v) ==
    Contains(v, <<"a">>) \/ Contains(v, <<"b">>) \/ Contains(v, <<"r","c">>)

Unmarked(keys) == { v \in ElemsOf(keys) : ~HasMarker(v) }

\* v is a pre-release of the release w
PreReleaseOfParts(pv, pw) ==
    /\ StripZeros(pv.release) = StripZeros(pw.release)
    /\ pv.pre.tag # <<>>
    /\ pw.pre.tag = <<>> /\ pw.post.tag = <<>> /\ pw.dev.tag = <<>>
PreReleaseOf(v, w) == PreReleaseOfParts(VersionParts(v), VersionParts(w))

\* xs, a list of str, holds exactly the identifiers keys, ascending
SortedListOf(xs, keys) ==
    /\ Len(xs) = Len(keys)
    /\ { xs[i].val : i \in 1..Len(xs) } = ElemsOf(keys)
    /\ \A i, j \in 1..Len(xs) : i < j => ~VersionLess(xs[j].val, xs[i].val)
    /\ \A i, j \in 1..Len(xs) : PreReleaseOf(xs[i].val, xs[j].val) => i < j

\* the names of a target, in order
NamesOf(t) == IF IsList(t) THEN t.val ELSE <<t>>

-----------------------------------------------------------------------------
\* C1: when the pip subprocess fails (non-zero exit, or it cannot be started),
\* install_package returns without raising and returns a failure result, its
\* success flag false and the captured standard error in it.
C1_InstallFailureResult ==
    (Finished("install_package") /\ ProcFailed(call.env.proc)) =>
        /\ call.raised = "none"
        /\ call.ret.ty = "InstallResult"
        /\ call.ret.val.success = FALSE
        /\ call.ret.val.stderr # ""

\* C2: whatever the outcome of the GET to the index, get_pypi_package_versions
\* and get_latest_stable_version return without raising; a failure is reported
\* and gives the empty list, respectively None.
C2_QueriesNeverRaise ==
    /\ Finished("get_pypi_package_versions") =>
          /\ call.raised = "none"
          /\ ~IndexAnswered(call.env) => (call.ret = PyList(<<>>) /\ call.out # <<>>)
    /\ Finished("get_latest_stable_version") =>
          /\ call.raised = "none"
          /\ ~IndexAnswered(call.env) => (call.ret = PyNone /\ call.out # <<>>)

\* C3: on an answered request, get_latest_stable_version returns a greatest
\* identifier, in version order, among those containing none of "a", "b",
\* "rc", and None exactly when there is no such identifier.
C3_LatestStable ==
    (Finished("get_latest_stable_version") /\ IndexAnswered(call.env)) =>
        /\ call.raised = "none"
        /\ (call.ret = PyNone) <=> (Unmarked(call.env.body.keys) = {})
        /\ call.ret # PyNone =>
              /\ IsStr(call.ret)
              /\ call.ret.val \in Unmarked(call.env.body.keys)
              /\ \A v \in Unmarked(call.env.body.keys) : ~VersionLess(call.ret.val, v)

\* C3, the case: releases {"1.0", "1.1a1", "1.1"} give "1.1".
C3_Witness ==
    /\ Finished("get_latest_stable_version")
    /\ IndexAnswered(call.env)
    /\ ElemsOf(call.env.body.keys) = {v_1_0, v_1_1a1, v_1_1}
    /\ call.ret = PyStr(v_1_1)

\* C4: on a request answered 200, get_pypi_package_versions returns exactly
\* the keys of the releases mapping, sorted non-decreasing in version order,
\* a pre-release before its release.
C4_SortedVersions ==
    (Finished("get_pypi_package_versions") /\ IndexAnswered(call.env)) =>
        /\ call.raised = "none"
        /\ IsList(call.ret)
        /\ SortedListOf(call.ret.val, call.env.body.keys)

C4_Witness ==
    /\ Finished("get_pypi_package_versions")
    /\ IndexAnswered(call.env)
    /\ call.env.body.keys = <<v_1_10, v_1_1, v_1_1a1>>
    /\ call.ret = PyList(<<PyStr(v_1_1a1), PyStr(v_1_1), PyStr(v_1_10)>>)

\* C5 as stated: get_install_command("foo") is ["install", "foo"] and
\* get_install_command(["foo", "bar"]) is ["install", "foo", "bar"].
C5_InstallPrefixOnly ==
    Finished("get_install_command") =>
        call.ret = PyList(<<PyStr(s_install)>> \o NamesOf(call.arg))

\* C5, amended: after any sequence of calls, get_install_command(target) is
\* ["pip", "install"] followed by the names of the target in the given order,
\* and the call changes neither the module's template nor its argument.
C5_InstallCommand ==
    /\ INSTALL_COMMAND = InitialInstallCommand
    /\ Finished("get_install_command") =>
          /\ call.ret = PyList(<<PyStr(s_pip), PyStr(s_install)>> \o NamesOf(call.arg))
          /\ call.arg_after = call.arg

C5_Witness ==
    /\ Finished("get_install_command")
    /\ call.arg = PyList(<<PyStr(n_foo), PyStr(n_bar)>>)
    /\ call.ret = PyList(<<PyStr(s_pip), PyStr(s_install), PyStr(n_foo), PyStr(n_bar)>>)
    /\ INSTALL_COMMAND = InitialInstallCommand

\* C6: on a response whose status is not 200, get_pypi_package_versions
\* returns the empty list, raises nothing and does not read the body.
C6_Non200Empty ==
    (Finished("get_pypi_package_versions") /\ ~call.env.raises
        /\ call.env.status_code # HTTP_OK) =>
        /\ call.raised = "none"
        /\ call.ret = PyList(<<>>)
        /\ ~call.body_read

C6_Witness ==
    /\ Finished("get_pypi_package_versions")
    /\ ~call.env.raises
    /\ call.env.status_code = 404
    /\ call.env.body.kind = "not_json"
    /\ call.ret = PyList(<<>>)

\* C7: get_package_info returns without raising for every name: the empty
\* dict when the name is not registered, otherwise a dict whose can_import is
\* false whenever loading the module fails, however it fails.
C7_GetInfoNeverRaises ==
    Finished("get_package_info") =>
        /\ call.raised = "none"
        /\ IF \E d \in call.env.working_set : d.key = ToLower(call.arg.val)
           THEN call.env.imp # "ok" => call.ret.val.can_import = FALSE
           ELSE DOMAIN call.ret.val = {}

\* C8: is_package_installed is true exactly when the lower-cased name is a key
\* of the working set, and answers alike for spellings differing only in case.
C8_CaseInsensitive ==
    Finished("is_package_installed") =>
        /\ call.ret = PyBool(\E d \in call.env.working_set : d.key = ToLower(call.arg.val))
        /\ \A n \in Names :
              ToLower(n) = ToLower(call.arg.val) =>
                  is_package_installed(PyStr(n), call.env.working_set).ret = call.ret

C8_Witness ==
    /\ Finished("is_package_installed")
    /\ call.arg = PyStr(n_Foo)
    /\ \E d \in call.env.working_set : d.key = n_foo
    /\ call.ret = PyBool(TRUE)

\* C9: for every target and both values of show_output, one install_package
\* call makes exactly one subprocess.run call, and its argument list is
\* get_install_command(target).
C9_OneRunOfBuiltCommand ==
    Finished("install_package") =>
        /\ Len(call.runs) = 1
        /\ call.runs[1] = get_install_command(InitialInstallCommand, call.arg).ret.val

\* C10: pip_install calls install_package once for each element, in order,
\* advancing the progress task by one after each, and always returns with the
\* completed count equal to the length of the list, whatever installs failed.
PipInOrder ==
    /\ task.total = Len(packages)
    /\ task.completed = idx
    /\ Len(log) = idx
    /\ \A i \in 1..Len(log) : log[i].package = packages[i] /\ Len(log[i].runs) = 1

PipComplete ==
    /\ call.raised = "none"
    /\ idx = Len(packages)
    /\ PipInOrder

C10_InstallMany ==
    /\ [](pc = "loop" => PipInOrder)
    /\ [](Finished("pip_install") => PipComplete)
    /\ (pc = "loop") ~> Finished("pip_install")

C10_Witness ==
    /\ Finished("pip_install")
    /\ Len(packages) = 2
    /\ ProcFailed(log[1].proc)
    /\ task.completed = 2
    /\ Len(log) = 2

====
